---- MODULE Spec2Model ----
(***************************************************************************)
(* Model of the remote-brain core: the command transport                   *)
(* (app/blender_remote.py) and the generation dispatcher                   *)
(* (app/providers.py, app/config.py).                                      *)
(*                                                                         *)
(* A Python str is a sequence of characters, a bytes object a sequence of  *)
(* bytes.  A character or an ASCII byte is the one-character string        *)
(* itself; a non-ASCII character is written "U+<hex>" and a non-ASCII byte *)
(* "x<HEX>".  Indices into Python strings are kept 0-based, as in the      *)
(* source.                                                                 *)
(***************************************************************************)
EXTENDS Integers, Sequences, FiniteSets, TLC

Min(a, b) == IF a <= b THEN a ELSE b

(***************************************************************************)
(* Python str operations used by the source.                               *)
(***************************************************************************)

\* Characters str.strip() removes (the whitespace of the model's alphabet).
IsSpace(c) == c \in {" ", "\n", "\t", "\r"}

RECURSIVE LStrip(_)
LStrip(s) ==
  IF s # <<>> /\ IsSpace(Head(s)) THEN LStrip(Tail(s)) ELSE s

RECURSIVE RStrip(_)
RStrip(s) ==
  IF s # <<>> /\ IsSpace(s[Len(s)]) THEN RStrip(SubSeq(s, 1, Len(s) - 1)) ELSE s

\* str.strip()
Strip(s) == RStrip(LStrip(s))

UpperCase ==
  <<"A", "B", "C", "D", "E", "F", "G", "H", "I", "J", "K", "L", "M",
    "N", "O", "P", "Q", "R", "S", "T", "U", "V", "W", "X", "Y", "Z">>

LowerCase ==
  <<"a", "b", "c", "d", "e", "f", "g", "h", "i", "j", "k", "l", "m",
    "n", "o", "p", "q", "r", "s", "t", "u", "v", "w", "x", "y", "z">>

\* str.lower() of one character.  U+0130 (capital I with dot above) is the
\* character whose lower case is two characters: "i" and U+0307.
LowerChar(c) ==
  IF \E i \in 1..Len(UpperCase) : UpperCase[i] = c
  THEN <<LowerCase[CHOOSE i \in 1..Len(UpperCase) : UpperCase[i] = c]>>
  ELSE IF c = "U+0130" THEN <<"i", "U+0307">>
  ELSE <<c>>

RECURSIVE Lower(_)
\* str.lower()
Lower(s) == IF s = <<>> THEN <<>> ELSE LowerChar(Head(s)) \o Lower(Tail(s))

\* s[a:b] for 0 <= a, 0 <= b: Python clamps both ends to len(s).
Slice(s, a, b) == SubSeq(s, Min(a, Len(s)) + 1, Min(b, Len(s)))

\* Whether sub occurs in s at 0-based index i.
OccursAt(s, sub, i) ==
  /\ i >= 0
  /\ i + Len(sub) <= Len(s)
  /\ SubSeq(s, i + 1, i + Len(sub)) = sub

\* s.find(sub, start): the lowest index >= start where sub occurs, else -1.
Find(s, sub, start) ==
  LET hits == {i \in start..(Len(s) - Len(sub)) : OccursAt(s, sub, i)}
  IN  IF hits = {} THEN -1 ELSE CHOOSE i \in hits : \A j \in hits : i <= j

\* sub in s
Contains(s, sub) == Find(s, sub, 0) # -1

\* s.startswith(p)
StartsWith(s, p) == OccursAt(s, p, 0)

(***************************************************************************)
(* bytes.decode("utf-8") / str.encode("utf-8").                            *)
(***************************************************************************)

\* The non-ASCII characters of the model and their UTF-8 encodings.
Utf8Table == <<[c |-> "U+E9", b |-> <<"xC3", "xA9">>]>>

\* Bytes >= 0x80 of the model: lead bytes, continuation bytes, and 0xFF,
\* which occurs in no UTF-8 encoding.
HighBytes == {"xC3", "xA9", "xFF"}

\* The table entries whose bytes occur in b at position i (1-based).
Utf8Hits(b, i) ==
  {k \in 1..Len(Utf8Table) :
     /\ i + Len(Utf8Table[k].b) - 1 <= Len(b)
     /\ SubSeq(b, i, i + Len(Utf8Table[k].b) - 1) = Utf8Table[k].b}

RECURSIVE Utf8DecodeFrom(_, _, _)
Utf8DecodeFrom(b, i, acc) ==
  IF i > Len(b) THEN [ok |-> TRUE, s |-> acc]
  ELSE IF b[i] \notin HighBytes THEN Utf8DecodeFrom(b, i + 1, Append(acc, b[i]))
  ELSE IF Utf8Hits(b, i) = {} THEN [ok |-> FALSE, s |-> <<>>]
  ELSE Utf8DecodeFrom(b, i + Len(Utf8Table[CHOOSE k \in Utf8Hits(b, i) : TRUE].b),
                      Append(acc, Utf8Table[CHOOSE k \in Utf8Hits(b, i) : TRUE].c))

\* b.decode("utf-8"): [ok |-> TRUE, s |-> the decoded str], or ok = FALSE
\* where decode raises UnicodeDecodeError (a truncated or invalid sequence).
Utf8Decode(b) == Utf8DecodeFrom(b, 1, <<>>)

\* The UTF-8 bytes of one character.
Utf8EncodeChar(c) ==
  IF \E k \in 1..Len(Utf8Table) : Utf8Table[k].c = c
  THEN Utf8Table[CHOOSE k \in 1..Len(Utf8Table) : Utf8Table[k].c = c].b
  ELSE <<c>>

RECURSIVE Utf8Encode(_)
\* s.encode("utf-8")
Utf8Encode(s) ==
  IF s = <<>> THEN <<>> ELSE Utf8EncodeChar(Head(s)) \o Utf8Encode(Tail(s))

(***************************************************************************)
(* Python values as json.loads builds them.  A dict is the sequence of     *)
(* its items in insertion order, keys unique.                              *)
(***************************************************************************)

JStr(chars) == [t |-> "str", v |-> chars]

JNum(n) == [t |-> "int", v |-> n]

JBool(b) == [t |-> "bool", v |-> b]

JNull == [t |-> "None", v |-> 0]

JObj(items) == [t |-> "dict", v |-> items]

JArr(items) == [t |-> "list", v |-> items]

\* d[key] = val on the item sequence of a dict: a present key keeps its place.
DictSet(items, key, val) ==
  IF \E i \in 1..Len(items) : items[i].k = key
  THEN [i \in 1..Len(items) |->
          IF items[i].k = key THEN [k |-> key, v |-> val] ELSE items[i]]
  ELSE Append(items, [k |-> key, v |-> val])

\* key in d
HasKey(d, key) == \E i \in 1..Len(d.v) : d.v[i].k = key

\* d.get(key): None when the key is absent.
DictGet(d, key) ==
  IF HasKey(d, key)
  THEN d.v[CHOOSE i \in 1..Len(d.v) : d.v[i].k = key].v
  ELSE JNull

\* bool(v): Python truthiness.
Truthy(v) ==
  CASE v.t = "None" -> FALSE
    [] v.t = "bool" -> v.v
    [] v.t = "int"  -> v.v # 0
    [] v.t \in {"str", "dict", "list"} -> v.v # <<>>

Digits == <<"0", "1", "2", "3", "4", "5", "6", "7", "8", "9">>

IsDigit(c) == \E i \in 1..10 : Digits[i] = c

DigitVal(c) == (CHOOSE i \in 1..10 : Digits[i] = c) - 1

RECURSIVE IntToStr(_)
\* str(n) for n >= 0
IntToStr(n) ==
  IF n < 10 THEN <<Digits[n + 1]>>
  ELSE IntToStr(n \div 10) \o <<Digits[(n % 10) + 1]>>

\* str(v) for the values whose str() is not a container's repr.
PyStr(v) ==
  CASE v.t = "str"  -> v.v
    [] v.t = "int"  -> IntToStr(v.v)
    [] v.t = "bool" -> IF v.v THEN <<"T", "r", "u", "e">>
                       ELSE <<"F", "a", "l", "s", "e">>
    [] v.t = "None" -> <<"N", "o", "n", "e">>

(***************************************************************************)
(* json.loads on a str (the json module's decoder).  The grammar covered:  *)
(* objects, arrays, strings with the one-character escapes, non-negative   *)
(* integers, true/false/null, whitespace.  The parser works on 1-based     *)
(* positions; a result is [ok, val, pos] with pos the position after the   *)
(* value, and ok = FALSE where the decoder raises JSONDecodeError.         *)
(***************************************************************************)

JFail == [ok |-> FALSE, val |-> JNull, pos |-> 0]

JOk(val, pos) == [ok |-> TRUE, val |-> val, pos |-> pos]

RECURSIVE SkipWs(_, _)
SkipWs(s, i) == IF i <= Len(s) /\ IsSpace(s[i]) THEN SkipWs(s, i + 1) ELSE i

\* The character an escape \c stands for; "" when \c is no escape.
Unescape(c) ==
  CASE c = "\"" -> "\""
    [] c = "\\" -> "\\"
    [] c = "/"  -> "/"
    [] c = "n"  -> "\n"
    [] c = "t"  -> "\t"
    [] c = "r"  -> "\r"
    [] c = "b"  -> "U+8"
    [] c = "f"  -> "U+C"
    [] OTHER    -> ""

IsControl(c) == c \in {"\n", "\t", "\r", "U+8", "U+C"}

RECURSIVE ScanString(_, _, _)
\* The string whose opening quote precedes position i.
ScanString(s, i, acc) ==
  IF i > Len(s) THEN JFail
  ELSE IF s[i] = "\"" THEN JOk(JStr(acc), i + 1)
  ELSE IF s[i] = "\\"
       THEN IF i + 1 > Len(s) \/ Unescape(s[i + 1]) = "" THEN JFail
            ELSE ScanString(s, i + 2, Append(acc, Unescape(s[i + 1])))
  ELSE IF IsControl(s[i]) THEN JFail
  ELSE ScanString(s, i + 1, Append(acc, s[i]))

RECURSIVE ScanDigits(_, _, _)
ScanDigits(s, i, n) ==
  IF i <= Len(s) /\ IsDigit(s[i])
  THEN ScanDigits(s, i + 1, 10 * n + DigitVal(s[i]))
  ELSE JOk(JNum(n), i)

\* A number: 0, or a non-zero digit followed by digits.
ScanNumber(s, i) ==
  IF s[i] = "0" THEN JOk(JNum(0), i + 1) ELSE ScanDigits(s, i, 0)

RECURSIVE ParseValue(_, _), ParseMembers(_, _, _), ParseElements(_, _, _)
ParseValue(s, i) ==
  IF i > Len(s) THEN JFail
  ELSE IF s[i] = "\"" THEN ScanString(s, i + 1, <<>>)
  ELSE IF s[i] = "{"
       THEN LET j == SkipWs(s, i + 1)
            IN  IF j > Len(s) THEN JFail
                ELSE IF s[j] = "}" THEN JOk(JObj(<<>>), j + 1)
                ELSE IF s[j] = "\"" THEN ParseMembers(s, j, <<>>)
                ELSE JFail
  ELSE IF s[i] = "["
       THEN LET j == SkipWs(s, i + 1)
            IN  IF j > Len(s) THEN JFail
                ELSE IF s[j] = "]" THEN JOk(JArr(<<>>), j + 1)
                ELSE ParseElements(s, j, <<>>)
  ELSE IF OccursAt(s, <<"n", "u", "l", "l">>, i - 1) THEN JOk(JNull, i + 4)
  ELSE IF OccursAt(s, <<"t", "r", "u", "e">>, i - 1) THEN JOk(JBool(TRUE), i + 4)
  ELSE IF OccursAt(s, <<"f", "a", "l", "s", "e">>, i - 1)
       THEN JOk(JBool(FALSE), i + 5)
  ELSE IF IsDigit(s[i]) THEN ScanNumber(s, i)
  ELSE JFail

\* The members of an object from the key whose opening quote is at j.
ParseMembers(s, j, acc) ==
  LET key == ScanString(s, j + 1, <<>>)
  IN  IF ~key.ok THEN JFail
      ELSE LET c == SkipWs(s, key.pos)
           IN  IF c > Len(s) \/ s[c] # ":" THEN JFail
               ELSE LET val == ParseValue(s, SkipWs(s, c + 1))
                    IN  IF ~val.ok THEN JFail
                        ELSE LET e    == SkipWs(s, val.pos)
                                 acc2 == DictSet(acc, key.val.v, val.val)
                             IN  IF e > Len(s) THEN JFail
                                 ELSE IF s[e] = "}" THEN JOk(JObj(acc2), e + 1)
                                 ELSE IF s[e] # "," THEN JFail
                                 ELSE LET n == SkipWs(s, e + 1)
                                      IN  IF n > Len(s) \/ s[n] # "\"" THEN JFail
                                          ELSE ParseMembers(s, n, acc2)

\* The elements of an array from the value at j.
ParseElements(s, j, acc) ==
  LET val == ParseValue(s, j)
  IN  IF ~val.ok THEN JFail
      ELSE LET e == SkipWs(s, val.pos)
           IN  IF e > Len(s) THEN JFail
               ELSE IF s[e] = "]" THEN JOk(JArr(Append(acc, val.val)), e + 1)
               ELSE IF s[e] # "," THEN JFail
               ELSE ParseElements(s, SkipWs(s, e + 1), Append(acc, val.val))

\* json.loads(s): one value, whitespace around it, nothing after it.
JsonLoads(s) ==
  LET r == ParseValue(s, SkipWs(s, 1))
  IN  IF r.ok /\ SkipWs(s, r.pos) = Len(s) + 1
      THEN [ok |-> TRUE, val |-> r.val]
      ELSE [ok |-> FALSE, val |-> JNull]

(***************************************************************************)
(* json.dumps(v) with the default separators and ensure_ascii, for str,    *)
(* int and dict values over ASCII.                                         *)
(***************************************************************************)

EscapeChar(c) ==
  CASE c = "\"" -> <<"\\", "\"">>
    [] c = "\\" -> <<"\\", "\\">>
    [] c = "\n" -> <<"\\", "n">>
    [] c = "\t" -> <<"\\", "t">>
    [] c = "\r" -> <<"\\", "r">>
    [] OTHER    -> <<c>>

RECURSIVE EscapeStr(_)
EscapeStr(s) ==
  IF s = <<>> THEN <<>> ELSE EscapeChar(Head(s)) \o EscapeStr(Tail(s))

DumpStr(s) == <<"\"">> \o EscapeStr(s) \o <<"\"">>

RECURSIVE JsonDumps(_), DumpItems(_)
JsonDumps(v) ==
  CASE v.t = "str"  -> DumpStr(v.v)
    [] v.t = "int"  -> IntToStr(v.v)
    [] v.t = "dict" -> <<"{">> \o DumpItems(v.v) \o <<"}">>

DumpItems(items) ==
  IF items = <<>> THEN <<>>
  ELSE DumpStr(items[1].k) \o <<":", " ">> \o JsonDumps(items[1].v)
       \o (IF Len(items) = 1 THEN <<>> ELSE <<",", " ">> \o DumpItems(Tail(items)))

(***************************************************************************)
(* Outcomes of a call: a returned value or a raised exception.  The text   *)
(* of an exception is a literal of the source (lit, placeholders kept) or  *)
(* a computed str (chars).                                                 *)
(***************************************************************************)

Lit(l) == [computed |-> FALSE, lit |-> l, chars |-> <<>>]

Computed(c) == [computed |-> TRUE, lit |-> "", chars |-> c]

NoOutcome == [kind |-> "none", exc |-> "", msg |-> Lit(""), val |-> JNull]

Return(v) == [kind |-> "return", exc |-> "", msg |-> Lit(""), val |-> v]

Raise(e, m) == [kind |-> "raise", exc |-> e, msg |-> m, val |-> JNull]

(***************************************************************************)
(* blender_remote.py                                                       *)
(***************************************************************************)

\* sock.recv(8192): the most bytes one read returns.
RecvSize == 8192

\* json.loads(data.decode("utf-8")): the parsed value, or the exception the
\* expression raises.
DecodeAndLoad(data) ==
  LET d == Utf8Decode(data)
  IN  IF ~d.ok THEN Raise("UnicodeDecodeError", Lit("invalid utf-8"))
      ELSE LET r == JsonLoads(d.s)
           IN  IF r.ok THEN Return(r.val)
               ELSE Raise("JSONDecodeError", Lit("invalid json"))

RECURSIVE Join(_)
\* b"".join(chunks)
Join(cs) == IF cs = <<>> THEN <<>> ELSE Head(cs) \o Join(Tail(cs))

\* One pass of the loop of _recv_json after a non-empty chunk was appended:
\* the attempt to parse everything received so far.  "none" is `continue`.
RecvJsonAttempt(cs) ==
  LET r == DecodeAndLoad(Join(cs))
  IN  IF r.kind = "raise" /\ r.exc = "JSONDecodeError" THEN NoOutcome ELSE r

\* _recv_json after the loop: the final parse of what was accumulated.
RecvJsonFinal(cs) ==
  IF cs = <<>>
  THEN Raise("BlenderRemoteError", Lit("No response received from Blender addon."))
  ELSE LET r == DecodeAndLoad(Join(cs))
       IN  IF r.kind = "raise" /\ r.exc = "JSONDecodeError"
           THEN Raise("BlenderRemoteError",
                      Lit("Blender addon response was not valid JSON."))
           ELSE r

\* _recv_json on a read timeout (socket.timeout from recv).
RecvJsonTimeout(cs) ==
  IF cs # <<>> THEN RecvJsonFinal(cs)
  ELSE Raise("BlenderRemoteError", Lit("Timeout waiting for Blender addon response."))

\* payload of send_blender_command: params or {}.
Payload(command_type, params) ==
  JObj(<<[k |-> <<"t", "y", "p", "e">>, v |-> JStr(command_type)],
         [k |-> <<"p", "a", "r", "a", "m", "s">>,
          v |-> IF Truthy(params) THEN params ELSE JObj(<<>>)]>>)

\* Mutant of WithExit: leaving the block does not close the socket.
WithExitLeak(s) == s

\* The socket when the with block of send_blender_command is left, by a
\* return or by an exception.
WithExit(s) == "closed"

\* An exception leaving the try block of send_blender_command: OSError (and
\* its subclasses) becomes BlenderRemoteError, any other propagates.
ExceptOSError(r) ==
  IF r.kind = "raise" /\ r.exc = "OSError"
  THEN Raise("BlenderRemoteError",
             Lit("Could not connect to Blender addon at {host}:{port}: {exc}"))
  ELSE r

KeyStatus == <<"s", "t", "a", "t", "u", "s">>

KeyMessage == <<"m", "e", "s", "s", "a", "g", "e">>

StrError == <<"e", "r", "r", "o", "r">>

\* response.get("status") == "error"
StatusIsError(response) ==
  LET st == DictGet(response, KeyStatus)
  IN  st.t = "str" /\ st.v = StrError

\* Mutant of ErrorMessage: the message is read under the key "error".
ErrorMessageWrongKey(response) ==
  LET m == DictGet(response, StrError)
  IN  IF Truthy(m) THEN Computed(PyStr(m)) ELSE Lit("Unknown Blender addon error")

\* The message of the error raised for an error status:
\* response.get("message") or "Unknown Blender addon error", through str().
ErrorMessage(response) ==
  LET m == DictGet(response, KeyMessage)
  IN  IF Truthy(m) THEN Computed(PyStr(m)) ELSE Lit("Unknown Blender addon error")

\* send_blender_command after the with block, on the parsed response.
StatusCheck(response) ==
  IF response.t # "dict"
  THEN Raise("AttributeError", Lit("object has no attribute 'get'"))
  ELSE IF StatusIsError(response)
       THEN Raise("BlenderRemoteError", ErrorMessage(response))
       ELSE Return(response)

\* send_blender_command from the outcome of _recv_json to its own outcome.
AfterRecv(r) ==
  IF r.kind = "return" THEN StatusCheck(r.val) ELSE ExceptOSError(r)

\* Mutant of RejectsCode: the code is tested without strip().
RejectsCodeNoStrip(code) == code = <<>>

\* execute_code: whether the code is rejected before any network activity.
RejectsCode(code) == Strip(code) = <<>>

(***************************************************************************)
(* providers.py                                                            *)
(***************************************************************************)

StrOpenai == <<"o", "p", "e", "n", "a", "i">>

StrAnthropic == <<"a", "n", "t", "h", "r", "o", "p", "i", "c">>

StrGroq == <<"g", "r", "o", "q">>

StrClaude == <<"c", "l", "a", "u", "d", "e">>

StrLlama == <<"l", "l", "a", "m", "a">>

StrMixtral == <<"m", "i", "x", "t", "r", "a", "l">>

Slash == <<"/">>

\* choose_provider(model, default_provider)
ChooseProvider(model, default_provider) ==
  LET normalized == Lower(model)
  IN  IF StartsWith(normalized, StrGroq \o Slash) THEN StrGroq
      ELSE IF StartsWith(normalized, StrOpenai \o Slash) THEN StrOpenai
      ELSE IF StartsWith(normalized, StrAnthropic \o Slash) THEN StrAnthropic
      ELSE IF StartsWith(normalized, StrClaude) THEN StrAnthropic
      ELSE IF StartsWith(normalized, StrLlama) \/ StartsWith(normalized, StrMixtral)
           THEN StrGroq
      ELSE StrOpenai

\* The fence marker: three backticks (U+60).
Fence == <<"U+60", "U+60", "U+60">>

\* marker = "```python"
Marker == Fence \o <<"p", "y", "t", "h", "o", "n">>

\* _extract_python_block(text)
ExtractPythonBlock(text) ==
  IF ~Contains(text, Fence) THEN Strip(text)
  ELSE LET lowered == Lower(text)
           found   == Find(lowered, Marker, 0)
           start   == IF found = -1
                      THEN Find(lowered, Fence, 0) + 3
                      ELSE found + Len(Marker)
           end     == Find(lowered, Fence, start)
       IN  IF end = -1 THEN Strip(text) ELSE Strip(Slice(text, start, end))

\* An Optional[str]: None, or a str.
PyNone == [some |-> FALSE, s |-> <<>>]

Some(s) == [some |-> TRUE, s |-> s]

\* o or ""
OrEmpty(o) == IF o.some THEN o.s ELSE <<>>

\* bool(o) of an Optional[str]
TruthyOpt(o) == o.some /\ o.s # <<>>

\* requested.split("/", 1)[1] for a requested that contains "/"
AfterFirstSlash(requested) ==
  Slice(requested, Find(requested, Slash, 0) + 1, Len(requested))

\* Mutant of DefaultTarget: the groq branch is missing.
DefaultTargetNoGroq(default_provider, settings) ==
  IF default_provider = StrAnthropic
  THEN [provider |-> StrAnthropic, model |-> settings.default_anthropic_model]
  ELSE [provider |-> StrOpenai, model |-> settings.default_openai_model]

\* The last three lines of _resolve_provider_and_model: the configured
\* default provider and that provider's default model.
DefaultTarget(default_provider, settings) ==
  IF default_provider = StrAnthropic
  THEN [provider |-> StrAnthropic, model |-> settings.default_anthropic_model]
  ELSE IF default_provider = StrGroq
       THEN [provider |-> StrGroq, model |-> settings.default_groq_model]
       ELSE [provider |-> StrOpenai, model |-> settings.default_openai_model]

\* _resolve_provider_and_model(model, settings)
ResolveProviderAndModel(model, settings) ==
  LET requested        == Strip(OrEmpty(model))
      default_provider == Lower(Strip(settings.default_provider))
      provider         == ChooseProvider(requested, default_provider)
      provider_model   ==
        IF Contains(requested, Slash)
           /\ provider \in {StrOpenai, StrAnthropic, StrGroq}
        THEN Strip(AfterFirstSlash(requested))
        ELSE requested
  IN  IF requested # <<>> /\ provider_model # <<>>
      THEN [provider |-> provider, model |-> provider_model]
      ELSE DefaultTarget(default_provider, settings)

\* The credential generate_python_code checks for a provider: the branches
\* are openai, groq, and anthropic for anything else.
ApiKey(provider, settings) ==
  IF provider = StrOpenai THEN settings.openai_api_key
  ELSE IF provider = StrGroq THEN settings.groq_api_key
  ELSE settings.anthropic_api_key

\* if not settings.<provider>_api_key: the configuration error is raised.
KeyMissing(key) == ~TruthyOpt(key)

NotConfigured(provider) ==
  IF provider = StrOpenai THEN "OPENAI_API_KEY is not configured."
  ELSE IF provider = StrGroq THEN "GROQ_API_KEY is not configured."
  ELSE "ANTHROPIC_API_KEY is not configured."

RECURSIVE JoinTextBlocks(_)
\* "\n".join of the text of the blocks whose type is "text"
JoinTextBlocks(blocks) ==
  IF blocks = <<>> THEN <<>>
  ELSE LET rest == JoinTextBlocks(Tail(blocks))
           more == \E i \in 2..Len(blocks) : blocks[i].type = "text"
       IN  IF Head(blocks).type # "text" THEN rest
           ELSE Head(blocks).text \o (IF more THEN <<"\n">> ELSE <<>>) \o rest

\* The reply text each branch of generate_python_code takes from the
\* backend's response: output_text or "" (openai), message.content or ""
\* stripped (groq), the joined text blocks stripped (anthropic).
ReplyText(provider, reply) ==
  IF provider = StrOpenai THEN OrEmpty(reply.output_text)
  ELSE IF provider = StrGroq THEN Strip(OrEmpty(reply.content))
  ELSE Strip(JoinTextBlocks(reply.blocks))

EmptyResponse(provider) ==
  IF provider = StrOpenai THEN "OpenAI response was empty."
  ELSE IF provider = StrGroq THEN "Groq response was empty."
  ELSE "Anthropic response was empty."

\* The provider name each branch puts before the model in its third result.
BranchName(provider) ==
  IF provider = StrOpenai THEN StrOpenai
  ELSE IF provider = StrGroq THEN StrGroq
  ELSE StrAnthropic

GNone == [kind |-> "none", exc |-> "", msg |-> "", code |-> <<>>,
          provider |-> <<>>, model |-> <<>>]

GRaise(e, m) == [kind |-> "raise", exc |-> e, msg |-> m, code |-> <<>>,
                 provider |-> <<>>, model |-> <<>>]

GReturn(code, provider, model) ==
  [kind |-> "return", exc |-> "", msg |-> "", code |-> code,
   provider |-> provider, model |-> model]

\* generate_python_code from the backend's response to its own outcome.
AfterReply(provider, selected_model, reply) ==
  LET text == ReplyText(provider, reply)
  IN  IF text = <<>> THEN GRaise("ProviderError", EmptyResponse(provider))
      ELSE GReturn(ExtractPythonBlock(text), provider,
                   BranchName(provider) \o Slash \o selected_model)

(***************************************************************************)
(* Inputs of the transport model: the calls made and the bytes the peer    *)
(* answers with.                                                           *)
(***************************************************************************)

\* The most writes the peer delivers its answer in.
MaxWrites == 2

Q == "\""

Quoted(chars) == <<Q>> \o chars \o <<Q>>

StrBoom == <<"b", "o", "o", "m">>

KeyResult == <<"r", "e", "s", "u", "l", "t">>

\* {"status":"error","message":"boom"}
DocBoom ==
  <<"{">> \o Quoted(KeyStatus) \o <<":">> \o Quoted(StrError) \o <<",">>
  \o Quoted(KeyMessage) \o <<":">> \o Quoted(StrBoom) \o <<"}">>

\* {"status":"error"}
DocErrNoMessage ==
  <<"{">> \o Quoted(KeyStatus) \o <<":">> \o Quoted(StrError) \o <<"}">>

\* {"status":"error","message":""}
DocErrEmptyMessage ==
  <<"{">> \o Quoted(KeyStatus) \o <<":">> \o Quoted(StrError) \o <<",">>
  \o Quoted(KeyMessage) \o <<":">> \o Quoted(<<>>) \o <<"}">>

\* {"status":"error","message":7}
DocErrNumMessage ==
  <<"{">> \o Quoted(KeyStatus) \o <<":">> \o Quoted(StrError) \o <<",">>
  \o Quoted(KeyMessage) \o <<":", "7", "}">>

\* {"status":"ok"}
DocOk ==
  <<"{">> \o Quoted(KeyStatus) \o <<":">> \o Quoted(<<"o", "k">>) \o <<"}">>

\* {"result":1}
DocNoStatus == <<"{">> \o Quoted(KeyResult) \o <<":", "1", "}">>

\* {"status":1}
DocNumStatus == <<"{">> \o Quoted(KeyStatus) \o <<":", "1", "}">>

\* {"m":"e-acute"}, the accented letter in its two UTF-8 bytes
DocAccent == <<"{">> \o Quoted(<<"m">>) \o <<":", Q, "xC3", "xA9", Q, "}">>

\* {"a":1} followed by a newline
DocTrailing == <<"{">> \o Quoted(<<"a">>) \o <<":", "1", "}", "\n">>

\* 12
DocNumber == <<"1", "2">>

\* []
DocList == <<"[", "]">>

\* {"a": cut short: never a document
DocTruncated == <<"{">> \o Quoted(<<"a">>) \o <<":">>

\* one byte that is not UTF-8
DocBadUtf8 == <<"xFF">>

Docs ==
  {DocBoom, DocErrNoMessage, DocErrEmptyMessage, DocErrNumMessage, DocOk,
   DocNoStatus, DocNumStatus, DocAccent, DocTrailing, DocNumber, DocList,
   DocTruncated, DocBadUtf8, <<>>}

\* The answers drawn for execute_code: the transport reads the answer the
\* same way whatever the request was.
ExecuteDocs == {DocOk, DocErrNoMessage, DocAccent, DocBadUtf8, <<>>}

Codes == {<<>>, <<" ">>, <<"\n", "\t">>, <<" ", "a", Q, "\n">>}

Calls ==
  {[fn |-> "get_scene_info", code |-> <<>>]}
  \cup {[fn |-> "execute_code", code |-> c] : c \in Codes}

(***************************************************************************)
(* State.  One call of the transport: get_scene_info or execute_code,      *)
(* through send_blender_command and _recv_json, against a peer that        *)
(* delivers peerDoc in some number of writes.                              *)
(***************************************************************************)
VARIABLES
  pc,          \* where the call is: start, connect, send, recv, done
  call,        \* the function called and its code argument
  request,     \* payload of send_blender_command
  sock,        \* the call's connection: none, open, closed
  opened,      \* connections established by the call
  wire,        \* the byte strings sendall delivered, in order
  peerDoc,     \* the bytes the peer answers with
  peerPos,     \* how many of them it has written
  peerWrites,  \* in how many writes
  peerClosed,  \* whether the peer closed the stream
  inbuf,       \* bytes delivered to the socket and not yet read
  chunks,      \* chunks of _recv_json
  recvResult,  \* outcome of _recv_json
  result       \* outcome of the call

VARIABLES
  fn,          \* the pure function applied
  args,        \* its arguments
  ret          \* [done |-> FALSE], or its value

VARIABLES
  gpc,         \* where generate_python_code is: start, request, done
  gargs,       \* its model and settings arguments
  target,      \* provider and selected_model
  clients,     \* backend clients constructed
  requests,    \* outbound requests made
  gresult      \* outcome of generate_python_code

tvars ==
  <<pc, call, request, sock, opened, wire, peerDoc, peerPos, peerWrites,
    peerClosed, inbuf, chunks, recvResult, result>>

fvars == <<fn, args, ret>>

gvars == <<gpc, gargs, target, clients, requests, gresult>>

vars == <<tvars, fvars, gvars>>

peerVars == <<peerDoc, peerPos, peerWrites, peerClosed, inbuf>>

TInit ==
  /\ pc = "start"
  /\ call \in Calls
  /\ request = JNull
  /\ sock = "none"
  /\ opened = 0
  /\ wire = <<>>
  /\ peerDoc \in (IF call.fn = "execute_code" THEN ExecuteDocs ELSE Docs)
  /\ peerPos = 0
  /\ peerWrites = 0
  /\ peerClosed = FALSE
  /\ inbuf = <<>>
  /\ chunks = <<>>
  /\ recvResult = NoOutcome
  /\ result = NoOutcome

\* execute_code up to its call of send_blender_command.
ExecuteCode ==
  /\ pc = "start"
  /\ call.fn = "execute_code"
  /\ IF RejectsCode(call.code)
     THEN /\ result' = Raise("BlenderRemoteError", Lit("Generated code is empty."))
          /\ pc' = "done"
          /\ UNCHANGED request
     ELSE /\ request' = Payload(<<"e", "x", "e", "c", "u", "t", "e", "_",
                                  "c", "o", "d", "e">>,
                                JObj(<<[k |-> <<"c", "o", "d", "e">>,
                                        v |-> JStr(call.code)]>>))
          /\ pc' = "connect"
          /\ UNCHANGED result
  /\ UNCHANGED <<call, sock, opened, wire, peerVars, chunks, recvResult>>
  /\ UNCHANGED <<fvars, gvars>>

\* get_scene_info up to the connection: no params.
GetSceneInfo ==
  /\ pc = "start"
  /\ call.fn = "get_scene_info"
  /\ request' = Payload(<<"g", "e", "t", "_", "s", "c", "e", "n", "e", "_",
                          "i", "n", "f", "o">>, JNull)
  /\ pc' = "connect"
  /\ UNCHANGED <<call, sock, opened, wire, peerVars, chunks, recvResult, result>>
  /\ UNCHANGED <<fvars, gvars>>

\* socket.create_connection succeeds.
Connect ==
  /\ pc = "connect"
  /\ sock' = "open"
  /\ opened' = opened + 1
  /\ pc' = "send"
  /\ UNCHANGED <<call, request, wire, peerVars, chunks, recvResult, result>>
  /\ UNCHANGED <<fvars, gvars>>

\* socket.create_connection raises OSError (refused, unreachable, DNS).
ConnectFails ==
  /\ pc = "connect"
  /\ result' = ExceptOSError(Raise("OSError", Lit("connect")))
  /\ pc' = "done"
  /\ UNCHANGED <<call, request, sock, opened, wire, peerVars, chunks, recvResult>>
  /\ UNCHANGED <<fvars, gvars>>

\* sock.sendall(json.dumps(payload).encode("utf-8")), then _recv_json starts.
SendAll ==
  /\ pc = "send"
  /\ wire' = Append(wire, Utf8Encode(JsonDumps(request)))
  /\ chunks' = <<>>
  /\ pc' = "recv"
  /\ UNCHANGED <<call, request, sock, opened, peerVars, recvResult, result>>
  /\ UNCHANGED <<fvars, gvars>>

\* sock.sendall raises OSError: the with block is left, the error mapped.
SendFails ==
  /\ pc = "send"
  /\ sock' = WithExit(sock)
  /\ result' = ExceptOSError(Raise("OSError", Lit("sendall")))
  /\ pc' = "done"
  /\ UNCHANGED <<call, request, opened, wire, peerVars, chunks, recvResult>>
  /\ UNCHANGED <<fvars, gvars>>

\* _recv_json and send_blender_command end with outcome r of _recv_json.
EndRecv(r) ==
  /\ recvResult' = r
  /\ sock' = WithExit(sock)
  /\ result' = AfterRecv(r)
  /\ pc' = "done"

\* sock.recv returns a non-empty chunk.
Recv ==
  /\ pc = "recv"
  /\ inbuf # <<>>
  /\ LET chunk == Slice(inbuf, 0, RecvSize)
         cs    == Append(chunks, chunk)
         r     == RecvJsonAttempt(cs)
     IN  /\ inbuf' = Slice(inbuf, Len(chunk), Len(inbuf))
         /\ chunks' = cs
         /\ IF r.kind = "none"
            THEN UNCHANGED <<pc, sock, recvResult, result>>
            ELSE EndRecv(r)
  /\ UNCHANGED <<call, request, opened, wire, peerDoc, peerPos, peerWrites,
                 peerClosed>>
  /\ UNCHANGED <<fvars, gvars>>

\* sock.recv returns b"": the peer closed and everything was read.
RecvEof ==
  /\ pc = "recv"
  /\ inbuf = <<>>
  /\ peerClosed
  /\ EndRecv(RecvJsonFinal(chunks))
  /\ UNCHANGED <<call, request, opened, wire, peerVars, chunks>>
  /\ UNCHANGED <<fvars, gvars>>

\* sock.recv raises socket.timeout: nothing arrived for the read timeout.
RecvTimeout ==
  /\ pc = "recv"
  /\ inbuf = <<>>
  /\ ~peerClosed
  /\ EndRecv(RecvJsonTimeout(chunks))
  /\ UNCHANGED <<call, request, opened, wire, peerVars, chunks>>
  /\ UNCHANGED <<fvars, gvars>>

\* sock.recv raises another OSError (connection reset).
RecvFails ==
  /\ pc = "recv"
  /\ EndRecv(Raise("OSError", Lit("recv")))
  /\ UNCHANGED <<call, request, opened, wire, peerVars, chunks>>
  /\ UNCHANGED <<fvars, gvars>>

\* The peer writes the next n bytes of its answer to the request.
PeerWrite ==
  /\ pc = "recv"
  /\ ~peerClosed
  /\ peerWrites < MaxWrites
  /\ \E n \in 1..(Len(peerDoc) - peerPos) :
       /\ inbuf' = inbuf \o SubSeq(peerDoc, peerPos + 1, peerPos + n)
       /\ peerPos' = peerPos + n
  /\ peerWrites' = peerWrites + 1
  /\ UNCHANGED <<pc, call, request, sock, opened, wire, peerDoc, peerClosed,
                 chunks, recvResult, result>>
  /\ UNCHANGED <<fvars, gvars>>

\* The peer closes the stream.
PeerClose ==
  /\ pc = "recv"
  /\ ~peerClosed
  /\ peerClosed' = TRUE
  /\ UNCHANGED <<pc, call, request, sock, opened, wire, peerDoc, peerPos,
                 peerWrites, inbuf, chunks, recvResult, result>>
  /\ UNCHANGED <<fvars, gvars>>

TNext ==
  \/ ExecuteCode
  \/ GetSceneInfo
  \/ Connect
  \/ ConnectFails
  \/ SendAll
  \/ SendFails
  \/ Recv
  \/ RecvEof
  \/ RecvTimeout
  \/ RecvFails
  \/ PeerWrite
  \/ PeerClose

\* The transport when no call is modelled.
TIdle ==
  /\ pc = "idle"
  /\ call = [fn |-> "", code |-> <<>>]
  /\ request = JNull
  /\ sock = "none"
  /\ opened = 0
  /\ wire = <<>>
  /\ peerDoc = <<>>
  /\ peerPos = 0
  /\ peerWrites = 0
  /\ peerClosed = FALSE
  /\ inbuf = <<>>
  /\ chunks = <<>>
  /\ recvResult = NoOutcome
  /\ result = NoOutcome

(***************************************************************************)
(* The pure functions of providers.py, applied to inputs from bounded      *)
(* sets.                                                                   *)
(***************************************************************************)

StrMyModel == <<"m", "y", "-", "m", "o", "d", "e", "l">>

\* claude-3-5-sonnet-latest
StrSonnet ==
  StrClaude \o <<"-", "3", "-", "5", "-", "s", "o", "n", "n", "e", "t",
                 "-", "l", "a", "t", "e", "s", "t">>

SelectorPrefixes ==
  {<<>>, StrGroq \o Slash, StrOpenai \o Slash, StrAnthropic \o Slash,
   <<"G", "r", "o", "q", "/">>, <<"f", "o", "o", "/">>, <<" ">>}

SelectorNames ==
  {<<>>, StrClaude, StrLlama, StrMixtral, StrMyModel, StrSonnet,
   <<"C", "l", "a", "u", "d", "e", "-", "3">>}

Selectors ==
  {p \o n \o t : p \in SelectorPrefixes, n \in SelectorNames,
                 t \in {<<>>, <<" ">>}}

Providers == {StrOpenai, StrAnthropic, StrGroq}

DefaultProviders ==
  Providers \cup {<<" ", "G", "r", "o", "q", " ">>, StrMixtral}

ModelNames(name) == {<<>>, name}

ResolveSettings ==
  [default_provider : DefaultProviders,
   default_openai_model : ModelNames(<<"g", "p", "t">>),
   default_anthropic_model : ModelNames(StrClaude),
   default_groq_model : ModelNames(StrLlama)]

TextBefore == {<<>>, <<" ">>, <<"h", "i", "\n">>, <<"U+0130">>}

TextOpening ==
  {<<>>, Fence, Marker, Fence \o <<"P", "y", "t", "h", "o", "n">>,
   Fence \o <<"p", "y">>}

TextBody == {<<>>, <<" ">>, <<"x">>, <<"\n", "x", " ", "y", "\n">>}

TextClosing == {<<>>, Fence}

TextAfter == {<<>>, <<"\n", "t">>, Marker \o <<"z">> \o Fence}

Texts ==
  {b \o o \o x \o c \o a : b \in TextBefore, o \in TextOpening, x \in TextBody,
                           c \in TextClosing, a \in TextAfter}

FInit ==
  /\ ret = [done |-> FALSE]
  /\ \/ /\ fn = "choose_provider"
        /\ args \in [model : Selectors, default_provider : Providers]
     \/ /\ fn = "_resolve_provider_and_model"
        /\ args \in [model : {PyNone} \cup {Some(m) : m \in Selectors},
                     settings : ResolveSettings]
     \/ /\ fn = "_extract_python_block"
        /\ args \in [text : Texts]

FIdle ==
  /\ fn = ""
  /\ args = [none |-> TRUE]
  /\ ret = [done |-> FALSE]

CallChooseProvider ==
  /\ fn = "choose_provider"
  /\ ~ret.done
  /\ ret' = [done |-> TRUE,
             val |-> ChooseProvider(args.model, args.default_provider)]
  /\ UNCHANGED <<fn, args>>
  /\ UNCHANGED <<tvars, gvars>>

CallResolveProviderAndModel ==
  /\ fn = "_resolve_provider_and_model"
  /\ ~ret.done
  /\ ret' = [done |-> TRUE,
             val |-> ResolveProviderAndModel(args.model, args.settings)]
  /\ UNCHANGED <<fn, args>>
  /\ UNCHANGED <<tvars, gvars>>

CallExtractPythonBlock ==
  /\ fn = "_extract_python_block"
  /\ ~ret.done
  /\ ret' = [done |-> TRUE, val |-> ExtractPythonBlock(args.text)]
  /\ UNCHANGED <<fn, args>>
  /\ UNCHANGED <<tvars, gvars>>

FNext ==
  \/ CallChooseProvider
  \/ CallResolveProviderAndModel
  \/ CallExtractPythonBlock

(***************************************************************************)
(* generate_python_code: resolution, the credential check, the backend     *)
(* call, the reply.                                                        *)
(***************************************************************************)

Keys == {PyNone, Some(<<>>), Some(<<" ">>), Some(<<"k">>)}

GenerateSettings ==
  [openai_api_key : Keys, anthropic_api_key : Keys, groq_api_key : Keys,
   default_provider : Providers,
   default_openai_model : {<<"g", "p", "t">>},
   default_anthropic_model : {StrClaude},
   default_groq_model : {StrLlama}]

GenerateModels ==
  {PyNone, Some(<<" ">>), Some(StrMyModel), Some(StrOpenai \o Slash \o <<"o">>),
   Some(StrGroq \o Slash \o StrLlama), Some(StrSonnet),
   Some(StrAnthropic \o Slash)}

ReplyTexts ==
  {<<>>, <<" ">>, <<"x">>, <<" ", "x", "\n">>,
   Marker \o <<"\n", "x", "\n">> \o Fence,
   Marker \o <<"\n">> \o Fence,
   Fence \o Fence,
   Marker \o <<"x">>}

OptionalTexts == {PyNone} \cup {Some(t) : t \in ReplyTexts}

Blocks ==
  {[type |-> "text", text |-> t] : t \in ReplyTexts}
  \cup {[type |-> "tool_use", text |-> <<>>]}

\* What a backend can answer: the fields each branch reads.
Replies ==
  [output_text : OptionalTexts, content : {PyNone}, blocks : {<<>>}]
  \cup [output_text : {PyNone}, content : OptionalTexts, blocks : {<<>>}]
  \cup [output_text : {PyNone}, content : {PyNone},
        blocks : {<<>>} \cup {<<b>> : b \in Blocks}
                 \cup {<<b, [type |-> "text", text |-> <<"x">>]>> : b \in Blocks}]

GInit ==
  /\ gpc = "start"
  /\ gargs \in [model : GenerateModels, settings : GenerateSettings]
  /\ target = [provider |-> <<>>, model |-> <<>>]
  /\ clients = 0
  /\ requests = 0
  /\ gresult = GNone

GIdle ==
  /\ gpc = "idle"
  /\ gargs = [none |-> TRUE]
  /\ target = [provider |-> <<>>, model |-> <<>>]
  /\ clients = 0
  /\ requests = 0
  /\ gresult = GNone

\* generate_python_code up to the backend call: resolution, the credential
\* check, the client, the request.
Generate ==
  /\ gpc = "start"
  /\ LET t == ResolveProviderAndModel(gargs.model, gargs.settings)
     IN  /\ target' = t
         /\ IF KeyMissing(ApiKey(t.provider, gargs.settings))
            THEN /\ gresult' = GRaise("ProviderError", NotConfigured(t.provider))
                 /\ gpc' = "done"
                 /\ UNCHANGED <<clients, requests>>
            ELSE /\ clients' = clients + 1
                 /\ requests' = requests + 1
                 /\ gpc' = "request"
                 /\ UNCHANGED gresult
  /\ UNCHANGED gargs
  /\ UNCHANGED <<tvars, fvars>>

\* The backend answers.
BackendReplies ==
  /\ gpc = "request"
  /\ \E reply \in Replies :
       gresult' = AfterReply(target.provider, target.model, reply)
  /\ gpc' = "done"
  /\ UNCHANGED <<gargs, target, clients, requests>>
  /\ UNCHANGED <<tvars, fvars>>

\* The backend call raises (network or API error): it propagates.
BackendFails ==
  /\ gpc = "request"
  /\ gresult' = GRaise("APIError", "backend call failed")
  /\ gpc' = "done"
  /\ UNCHANGED <<gargs, target, clients, requests>>
  /\ UNCHANGED <<tvars, fvars>>

GNext ==
  \/ Generate
  \/ BackendReplies
  \/ BackendFails

(***************************************************************************)
(* Specifications.                                                         *)
(***************************************************************************)

\* One call of the transport.
Init == TInit /\ FIdle /\ GIdle

Next == TNext

Spec == Init /\ [][Next]_vars

\* One application of a pure function of providers.py.
InitFunctions == FInit /\ TIdle /\ GIdle

NextFunctions == FNext

SpecFunctions == InitFunctions /\ [][NextFunctions]_vars

\* One call of generate_python_code.
InitGenerate == GInit /\ TIdle /\ FIdle

NextGenerate == GNext

SpecGenerate == InitGenerate /\ [][NextGenerate]_vars

(***************************************************************************)
(* Properties.                                                             *)
(***************************************************************************)

RECURSIVE PyEq(_, _)
\* a == b on parsed values: same type and same content, dicts compared
\* without regard to the order of their items.
PyEq(a, b) ==
  /\ a.t = b.t
  /\ CASE a.t \in {"str", "int", "bool", "None"} -> a.v = b.v
       [] a.t = "list" ->
            /\ Len(a.v) = Len(b.v)
            /\ \A i \in 1..Len(a.v) : PyEq(a.v[i], b.v[i])
       [] a.t = "dict" ->
            /\ Len(a.v) = Len(b.v)
            /\ \A i \in 1..Len(a.v) :
                 /\ HasKey(b, a.v[i].k)
                 /\ PyEq(a.v[i].v, DictGet(b, a.v[i].k))

AllSpace(s) == \A i \in 1..Len(s) : IsSpace(s[i])

\* A well-formed response document: UTF-8 text that is one JSON object.
WellFormed(doc) ==
  /\ Utf8Decode(doc).ok
  /\ JsonLoads(Utf8Decode(doc).s).ok
  /\ JsonLoads(Utf8Decode(doc).s).val.t = "dict"

DocValue(doc) == JsonLoads(Utf8Decode(doc).s).val

\* C1: for a well-formed response document, _recv_json returns the value of
\* the whole document however the bytes are split into writes; it fails
\* only when the connection is reset or the peer stops (a pause over the
\* read timeout, a close) before it has delivered the whole document.
C1_FramingIndependent ==
  (pc = "done" /\ recvResult.kind # "none" /\ WellFormed(peerDoc)) =>
    IF recvResult.kind = "return"
    THEN PyEq(recvResult.val, DocValue(peerDoc))
    ELSE \/ recvResult.exc = "OSError"
         \/ recvResult.exc = "BlenderRemoteError" /\ peerPos < Len(peerDoc)

\* C2: a call that does not return a response raises BlenderRemoteError and
\* no other kind of exception, whatever chunks were received.
C2_SingleErrorKind ==
  (pc = "done" /\ result.kind = "raise") => result.exc = "BlenderRemoteError"

IsGeneric(msg) == ~msg.computed /\ msg.lit = "Unknown Blender addon error"

\* The text of an error that carries the message field m of the response.
CarriesMessage(msg, m) ==
  /\ msg.computed
  /\ \/ m.t = "str" /\ msg.chars = m.v
     \/ m.t = "int" /\ msg.chars = IntToStr(m.v)
     \/ m.t = "bool" /\ m.v /\ msg.chars = <<"T", "r", "u", "e">>

\* A message field that is absent or falsy: None, "", 0, false, [] or {}.
NoMessage(response) ==
  \/ ~HasKey(response, KeyMessage)
  \/ LET m == DictGet(response, KeyMessage)
     IN  \/ m.t = "None"
         \/ m.t = "bool" /\ ~m.v
         \/ m.t = "int" /\ m.v = 0
         \/ m.t \in {"str", "list", "dict"} /\ Len(m.v) = 0

StatusError(response) ==
  /\ HasKey(response, KeyStatus)
  /\ DictGet(response, KeyStatus).t = "str"
  /\ DictGet(response, KeyStatus).v = StrError

\* C3 (amended): on a parsed response object, a status equal to "error" ends
\* the call with BlenderRemoteError whose text is the message field as text,
\* or the generic text when the message is absent or falsy (empty); any
\* other status, or none, returns the response unchanged.
C3_StatusHandling ==
  (pc = "done" /\ recvResult.kind = "return" /\ recvResult.val.t = "dict") =>
    LET r == recvResult.val
    IN  IF StatusError(r)
        THEN /\ result.kind = "raise"
             /\ result.exc = "BlenderRemoteError"
             /\ IF NoMessage(r) THEN IsGeneric(result.msg)
                ELSE CarriesMessage(result.msg, DictGet(r, KeyMessage))
        ELSE /\ result.kind = "return"
             /\ PyEq(result.val, r)

\* C3 as claimed: the generic text only when the message field is absent.
C3_GenericOnlyWhenAbsent ==
  (pc = "done" /\ recvResult.kind = "return" /\ recvResult.val.t = "dict"
   /\ StatusError(recvResult.val)) =>
    /\ result.kind = "raise"
    /\ result.exc = "BlenderRemoteError"
    /\ IF HasKey(recvResult.val, KeyMessage)
       THEN CarriesMessage(result.msg, DictGet(recvResult.val, KeyMessage))
       ELSE IsGeneric(result.msg)

\* C3 witness: the answer {"status":"error","message":"boom"} ended the call
\* with the text "boom".
C3_Witness ==
  /\ pc = "done"
  /\ peerDoc = DocBoom
  /\ result.kind = "raise"
  /\ result.msg.computed
  /\ result.msg.chars = StrBoom

\* C4: a call opens at most one connection, and when it has returned or
\* raised no connection of its own is open.
C4_ConnectionClosed ==
  /\ opened <= 1
  /\ sock = "open" => opened = 1
  /\ pc = "done" => sock # "open"

\* C4 witness: a call that connected and ended by an exception that is not
\* mapped, its connection closed.
C4_Witness ==
  /\ pc = "done"
  /\ opened = 1
  /\ sock = "closed"
  /\ result.kind = "raise"
  /\ result.exc = "UnicodeDecodeError"

ExecuteCodeRequest(code) ==
  JObj(<<[k |-> <<"t", "y", "p", "e">>,
          v |-> JStr(<<"e", "x", "e", "c", "u", "t", "e", "_", "c", "o", "d", "e">>)],
         [k |-> <<"p", "a", "r", "a", "m", "s">>,
          v |-> JObj(<<[k |-> <<"c", "o", "d", "e">>, v |-> JStr(code)]>>)]>>)

\* C10: execute_code with blank code raises BlenderRemoteError with no
\* connection opened and nothing sent; with non-blank code at most one
\* request is sent, exactly one once the send succeeded, and what is sent
\* decodes to the execute_code command carrying the code unchanged.
C10_ExecuteCode ==
  call.fn = "execute_code" =>
    IF AllSpace(call.code)
    THEN /\ opened = 0
         /\ sock = "none"
         /\ wire = <<>>
         /\ pc = "done" => (result.kind = "raise"
                            /\ result.exc = "BlenderRemoteError")
    ELSE /\ Len(wire) <= 1
         /\ (pc = "recv" \/ recvResult.kind # "none") => Len(wire) = 1
         /\ \A i \in 1..Len(wire) :
              /\ Utf8Decode(wire[i]).ok
              /\ JsonLoads(Utf8Decode(wire[i]).s).ok
              /\ PyEq(JsonLoads(Utf8Decode(wire[i]).s).val,
                      ExecuteCodeRequest(call.code))

\* C10 witness: a whitespace-only code was rejected.
C10_Witness ==
  /\ pc = "done"
  /\ call.fn = "execute_code"
  /\ call.code = <<"\n", "\t">>
  /\ result.kind = "raise"

\* s starts with p, letter case ignored.
HasPrefixCI(s, p) ==
  /\ Len(s) >= Len(p)
  /\ \A i \in 1..Len(p) : LowerChar(s[i]) = <<p[i]>>

\* The provider the three-level precedence of C5 gives.
ClaimedProvider(model, default_provider) ==
  IF \E p \in Providers : HasPrefixCI(model, p \o Slash)
  THEN CHOOSE p \in Providers : HasPrefixCI(model, p \o Slash)
  ELSE IF HasPrefixCI(model, StrClaude) THEN StrAnthropic
  ELSE IF HasPrefixCI(model, StrLlama) \/ HasPrefixCI(model, StrMixtral)
       THEN StrGroq
  ELSE default_provider

\* C5: choose_provider returns the provider of an explicit prefix, else the
\* provider of a recognised model family, else the default provider given.
C5_ChooseProvider ==
  (fn = "choose_provider" /\ ret.done) =>
    /\ ret.val \in Providers
    /\ ret.val = ClaimedProvider(args.model, args.default_provider)

\* The configured default provider, trimmed and lower-cased; openai when it
\* is neither anthropic nor groq.
ConfiguredDefault(settings) ==
  LET d == Lower(Strip(settings.default_provider))
  IN  IF d \in {StrAnthropic, StrGroq} THEN d ELSE StrOpenai

DefaultModelOf(settings, provider) ==
  IF provider = StrAnthropic THEN settings.default_anthropic_model
  ELSE IF provider = StrGroq THEN settings.default_groq_model
  ELSE settings.default_openai_model

BlankSelector(m) == ~m.some \/ AllSpace(m.s)

SonnetSelector == Some(StrAnthropic \o Slash \o StrSonnet)

\* C6 (amended): _resolve_provider_and_model returns one of the three
\* providers; its model is empty only when it is the configured default
\* model of the configured default provider and that setting is empty; a
\* blank selector yields the configured default provider with its default
\* model; anthropic/claude-3-5-sonnet-latest yields anthropic with
\* claude-3-5-sonnet-latest.
C6_Resolve ==
  (fn = "_resolve_provider_and_model" /\ ret.done) =>
    LET st == args.settings
        r  == ret.val
    IN  /\ r.provider \in Providers
        /\ r.model = <<>> =>
             /\ r.provider = ConfiguredDefault(st)
             /\ DefaultModelOf(st, r.provider) = <<>>
        /\ BlankSelector(args.model) =>
             /\ r.provider = ConfiguredDefault(st)
             /\ r.model = DefaultModelOf(st, r.provider)
        /\ args.model = SonnetSelector =>
             /\ r.provider = StrAnthropic
             /\ r.model = StrSonnet

\* C6 as claimed: the model is non-empty for every selector and Settings.
C6_ModelNonEmpty ==
  (fn = "_resolve_provider_and_model" /\ ret.done) =>
    /\ ret.val.provider \in Providers
    /\ ret.val.model # <<>>

\* C6 witness: anthropic/claude-3-5-sonnet-latest resolved with the default
\* provider openai.
C6_Witness ==
  /\ fn = "_resolve_provider_and_model"
  /\ ret.done
  /\ args.model = SonnetSelector
  /\ args.settings.default_provider = StrOpenai
  /\ ret.val.provider = StrAnthropic
  /\ ret.val.model = StrSonnet

\* A fence tagged python, letter case ignored, at 0-based index i of text.
PythonFenceAt(text, i) ==
  /\ i + Len(Marker) <= Len(text)
  /\ \A k \in 1..Len(Marker) : LowerChar(text[i + k]) = <<Marker[k]>>

Lowest(S) == CHOOSE i \in S : \A j \in S : i <= j

\* The block C7 describes, taken from the text itself.
ClaimedBlock(text) ==
  LET fences == {i \in 0..(Len(text) - 3) : OccursAt(text, Fence, i)}
      tagged == {i \in 0..(Len(text) - 3) : PythonFenceAt(text, i)}
      from   == IF tagged # {} THEN Lowest(tagged) + Len(Marker)
                ELSE Lowest(fences) + 3
      after  == {i \in fences : i >= from}
  IN  IF fences = {} \/ after = {} THEN Strip(text)
      ELSE Strip(SubSeq(text, from + 1, Lowest(after)))

\* C7: _extract_python_block returns the trimmed text between the opening
\* marker (the first fence tagged python, else the first fence) and the next
\* fence; the trimmed whole text without a fence or without a closing fence.
C7_ExtractBlock ==
  (fn = "_extract_python_block" /\ ret.done) =>
    ret.val = ClaimedBlock(args.text)

\* C8: the code generate_python_code returns is never empty.
C8_CodeNonEmpty ==
  (gpc = "done" /\ gresult.kind = "return") => gresult.code # <<>>

\* The credential of a backend, by its name.
Credential(settings, provider) ==
  IF provider = StrAnthropic THEN settings.anthropic_api_key
  ELSE IF provider = StrGroq THEN settings.groq_api_key
  ELSE settings.openai_api_key

BlankKey(key) == ~key.some \/ AllSpace(key.s)

\* C9: when the selected backend's credential is absent, empty or blank, the
\* call fails with the configuration error, no client is constructed and no
\* request is made.
C9_BlankCredential ==
  (gpc \in {"request", "done"}
   /\ BlankKey(Credential(gargs.settings, target.provider))) =>
    /\ clients = 0
    /\ requests = 0
    /\ gpc = "done"
    /\ gresult.kind = "raise"
    /\ gresult.exc = "ProviderError"

====
